---- MODULE Spec2Model ----
(***************************************************************************)
(* Model of the Telegram bot webhook worker (grammY on Cloudflare Workers  *)
(* with a D1 database).  The worker's fetch handler builds a bot, registers *)
(* three handlers (start, help, generic message) and hands the request to  *)
(* the webhook adapter; the start handler upserts the sender into the      *)
(* users table before replying.  The persistence collaborator holds two    *)
(* tables, users and settings, declared in src/assets/src/db/schema.ts.    *)
(***************************************************************************)
EXTENDS Integers, Sequences, FiniteSets, TLC

\* ------------------------------------------------------------------ bounds
NumReq == 1          \* webhook invocations that may be in flight together
MaxUserId == 1       \* number of distinct Telegram senders
MaxClock == 1        \* the clock runs over 0..MaxClock
MaxRowId == 2        \* highest autoincrement id handed out per table
NumConc == 2         \* start invocations in flight together on one database

\* --------------------------------------------------------------- constants
WELCOME == "Welcome to the Bot! Send /help for help."
HELP == "Available commands:\n/start - Start\n/help - Help"
ACK == "Message received!"

Null == "null"
Undefined == "undefined"

Requests == 1..NumReq

\* the invocations racing on the same database
ConcRequests == 1..NumConc

\* every invocation slot
Slots == Requests \cup ConcRequests

\* Telegram user ids of the senders: 12, 7, 2, ... (two and one digit ids)
SenderIds == {17 - 5 * i : i \in 1..MaxUserId}

\* ctx.from objects: id plus the optional display-name fields
Profiles ==
    { [username |-> "ann", first_name |-> "Ann", last_name |-> "Lee"],
      [username |-> Undefined, first_name |-> "Bo", last_name |-> Undefined] }

Senders ==
    { [id |-> i, username |-> p.username, first_name |-> p.first_name,
       last_name |-> p.last_name] : i \in SenderIds, p \in Profiles }

Kinds == {"start", "help", "message", "callback_query"}

\* ctx.from is optional: <<>> when the update carries no sender, <<user>> otherwise
NoFrom == <<>>

Updates == [kind : Kinds, from : {<<s>> : s \in Senders} \cup {NoFrom}]



SettingKeys == {"theme"}
SettingValues == {"dark", Null}

\* ----------------------------------------------------------------- helpers
Digit(d) ==
    CASE d = 0 -> "0" [] d = 1 -> "1" [] d = 2 -> "2" [] d = 3 -> "3"
      [] d = 4 -> "4" [] d = 5 -> "5" [] d = 6 -> "6" [] d = 7 -> "7"
      [] d = 8 -> "8" [] d = 9 -> "9"

RECURSIVE String(_)
\* String(user.id): the decimal digits of a non-negative integer
String(n) == IF n < 10 THEN <<Digit(n)>> ELSE Append(String(n \div 10), Digit(n % 10))

\* BigInt(user.id): the same integer value
BigInt(n) == n

\* x ?? null
OrNull(x) == IF x = Undefined THEN Null ELSE x

VARIABLES binding, users, settings, nextUserId, nextSettingId, clock, req

vars == <<binding, users, settings, nextUserId, nextSettingId, clock, req>>

db == <<users, settings, nextUserId, nextSettingId>>

\* the value stored in users.telegram_id for a sender id
TelegramId(id) == IF binding = "drizzle" THEN String(id) ELSE BigInt(id)

\* one invocation of fetch: where it stands, the kind of its update, which
\* handler was selected, the start
\* handler's `user`, the state of its upsert promise, the replies sent through
\* ctx.reply and the Responses returned
IdleReq ==
    [pc |-> "idle", kind |-> "none", handler |-> "none", user |-> NoFrom,
     upsert |-> "none",
     attempts |-> 0, replies |-> <<>>, responses |-> 0]

\* ----------------------------------------------------------- users table
HasUser(us, tid) == \E row \in us : row.telegramId = tid

\* the conflict clause leaves updated_at out of the set
UsersUpsert_NoRefresh(us, newId, tid, un, fn, ln, now) ==
    IF HasUser(us, tid)
    THEN { IF row.telegramId = tid
           THEN [row EXCEPT !.username = un, !.firstName = fn, !.lastName = ln]
           ELSE row : row \in us }
    ELSE us \cup { [id |-> newId, telegramId |-> tid, username |-> un,
                    firstName |-> fn, lastName |-> ln,
                    createdAt |-> now, updatedAt |-> now] }

\* a plain insert, without the conflict clause and without the unique index
UsersUpsert_AlwaysInsert(us, newId, tid, un, fn, ln, now) ==
    us \cup { [id |-> newId, telegramId |-> tid, username |-> un,
               firstName |-> fn, lastName |-> ln,
               createdAt |-> now, updatedAt |-> now] }

\* the insert leaves last_name out of the values
UsersUpsert_NoLastName(us, newId, tid, un, fn, ln, now) ==
    IF HasUser(us, tid)
    THEN { IF row.telegramId = tid
           THEN [row EXCEPT !.username = un, !.firstName = fn,
                            !.lastName = ln, !.updatedAt = now]
           ELSE row : row \in us }
    ELSE us \cup { [id |-> newId, telegramId |-> tid, username |-> un,
                    firstName |-> fn, lastName |-> Null,
                    createdAt |-> now, updatedAt |-> now] }

\* the conflict update is applied to every row of the table
UsersUpsert_NoWhere(us, newId, tid, un, fn, ln, now) ==
    IF HasUser(us, tid)
    THEN { [row EXCEPT !.username = un, !.firstName = fn,
                       !.lastName = ln, !.updatedAt = now] : row \in us }
    ELSE us \cup { [id |-> newId, telegramId |-> tid, username |-> un,
                    firstName |-> fn, lastName |-> ln,
                    createdAt |-> now, updatedAt |-> now] }

\* INSERT OR REPLACE: on conflict the old row is deleted and a new one written
UsersUpsert_Replace(us, newId, tid, un, fn, ln, now) ==
    { row \in us : row.telegramId # tid }
    \cup { [id |-> newId, telegramId |-> tid, username |-> un,
             firstName |-> fn, lastName |-> ln,
             createdAt |-> now, updatedAt |-> now] }

\* insert(users).values(...).onConflictDoUpdate({target: telegramId, set})
UsersUpsert(us, newId, tid, un, fn, ln, now) ==
    IF HasUser(us, tid)
    THEN { IF row.telegramId = tid
           THEN [row EXCEPT !.username = un, !.firstName = fn,
                            !.lastName = ln, !.updatedAt = now]
           ELSE row : row \in us }
    ELSE us \cup { [id |-> newId, telegramId |-> tid, username |-> un,
                    firstName |-> fn, lastName |-> ln,
                    createdAt |-> now, updatedAt |-> now] }

\* the Prisma schema declares updatedAt without @updatedAt
PrismaUpsert_NoUpdatedAt(us, newId, tid, un, fn, ln, now) ==
    LET found == { row \in us : row.telegramId = tid }
        create == [id |-> newId, telegramId |-> tid, username |-> un,
                   firstName |-> fn, lastName |-> ln,
                   createdAt |-> now, updatedAt |-> now]
    IN IF found = {}
       THEN us \cup {create}
       ELSE (us \ found)
            \cup { [row EXCEPT !.username = un, !.firstName = fn,
                               !.lastName = ln] : row \in found }

\* prisma.user.upsert({where: {telegramId}, update, create}): the row found
\* by `where` takes the `update` fields and, being @updatedAt, the current
\* time; without one the `create` record is inserted
PrismaUpsert(us, newId, tid, un, fn, ln, now) ==
    LET found == { row \in us : row.telegramId = tid }
        create == [id |-> newId, telegramId |-> tid, username |-> un,
                   firstName |-> fn, lastName |-> ln,
                   createdAt |-> now, updatedAt |-> now]
    IN IF found = {}
       THEN us \cup {create}
       ELSE (us \ found)
            \cup { [row EXCEPT !.username = un, !.firstName = fn,
                               !.lastName = ln, !.updatedAt = now] : row \in found }

\* the upsert statement entry point b issues for ctx.from = user
Upsert(b, us, newId, user, now) ==
    IF b = "drizzle"
    THEN UsersUpsert(us, newId, String(user.id), OrNull(user.username),
                     OrNull(user.first_name), OrNull(user.last_name), now)
    ELSE PrismaUpsert(us, newId, BigInt(user.id), OrNull(user.username),
                      OrNull(user.first_name), OrNull(user.last_name), now)

\* ------------------------------------------------------- settings table
HasSetting(ss, uid, key) == \E s \in ss : s.userId = uid /\ s.key = key

\* a plain insert, without the unique index on (user_id, key)
SettingsUpsert_AlwaysInsert(ss, newId, uid, key, value, now) ==
    ss \cup { [id |-> newId, userId |-> uid, key |-> key, value |-> value,
               createdAt |-> now, updatedAt |-> now] }

\* setting.upsert({where: {userId_key}, update: {value}, create})
SettingsUpsert(ss, newId, uid, key, value, now) ==
    IF HasSetting(ss, uid, key)
    THEN { IF s.userId = uid /\ s.key = key
           THEN [s EXCEPT !.value = value, !.updatedAt = now]
           ELSE s : s \in ss }
    ELSE ss \cup { [id |-> newId, userId |-> uid, key |-> key, value |-> value,
                    createdAt |-> now, updatedAt |-> now] }

\* the foreign key declared without onDelete: "cascade" and not enforced
CascadeDelete_None(ss, uid) == ss

\* references(() => users.id, {onDelete: "cascade"})
CascadeDelete(ss, uid) == { s \in ss : s.userId # uid }

\* ---------------------------------------------------------------- routing
\* bot.on("message") registered ahead of the two commands
Handlers_MessageFirst == <<"message", "start", "help">>

Handlers == <<"start", "help", "message">>

\* bot.command(name) matches a message carrying that command;
\* bot.on("message") matches every message update
Matches(h, u) ==
    CASE h = "start" -> u.kind = "start"
      [] h = "help" -> u.kind = "help"
      [] h = "message" -> u.kind \in {"start", "help", "message"}

\* the first registered handler that matches runs; none of them calls next()
Route(u) ==
    IF \E i \in 1..Len(Handlers) : Matches(Handlers[i], u)
    THEN Handlers[CHOOSE i \in 1..Len(Handlers) :
                     /\ Matches(Handlers[i], u)
                     /\ \A j \in 1..(i - 1) : ~Matches(Handlers[j], u)]
    ELSE "none"

\* ------------------------------------------------------------------- init
Init ==
    /\ binding \in {"drizzle", "prisma"}
    /\ users = {}
    /\ settings = {}
    /\ nextUserId = 1
    /\ nextSettingId = 1
    /\ clock = 0
    /\ req = [r \in Slots |-> IdleReq]

\* the Prisma entry point replies as the example of its guide does
ReplyText_GuideExample(b, h) ==
    CASE h = "start" -> IF b = "drizzle" THEN WELCOME ELSE "Welcome to the Bot!"
      [] h = "help" -> HELP
      [] h = "message" -> ACK

\* the literal entry point b passes to ctx.reply in handler h
ReplyText(b, h) ==
    CASE h = "start" ->
           IF b = "drizzle" THEN WELCOME
           ELSE "Welcome to the Bot! Send /help for help."
      [] h = "help" ->
           IF b = "drizzle" THEN HELP
           ELSE "Available commands:\n/start - Start\n/help - Help"
      [] h = "message" ->
           IF b = "drizzle" THEN ACK ELSE "Message received!"

\* ---------------------------------------------------------------- actions
\* the start handler returns at once when ctx.from is absent
StartHandler_ReturnsEarly(from) ==
    IF from # NoFrom
    THEN [IdleReq EXCEPT !.pc = "await_upsert", !.handler = "start", !.user = from,
                         !.upsert = "pending", !.attempts = 1]
    ELSE [IdleReq EXCEPT !.pc = "handled", !.handler = "start"]

\* bot.command("start") up to its first await:
\* const user = ctx.from; if (user) { await db.insert(...) } await ctx.reply(...)
StartHandler(from) ==
    IF from # NoFrom
    THEN [IdleReq EXCEPT !.pc = "await_upsert", !.handler = "start", !.user = from,
                         !.upsert = "pending", !.attempts = 1]
    ELSE [IdleReq EXCEPT !.pc = "start_reply", !.handler = "start"]

\* the generic message handler saves the sender as the start handler does
Enter_MessageSaves(h, u) ==
    CASE h = "start" -> StartHandler(u.from)
      [] h = "help" -> [IdleReq EXCEPT !.pc = "help_reply", !.handler = "help"]
      [] h = "message" -> [StartHandler(u.from) EXCEPT !.handler = "message"]
      [] h = "none" -> [IdleReq EXCEPT !.pc = "skipped"]

\* the selected handler runs up to its first await
Enter(h, u) ==
    CASE h = "start" -> StartHandler(u.from)
      [] h = "help" -> [IdleReq EXCEPT !.pc = "help_reply", !.handler = "help"]
      [] h = "message" -> [IdleReq EXCEPT !.pc = "message_reply", !.handler = "message"]
      [] h = "none" -> [IdleReq EXCEPT !.pc = "skipped"]

\* fetch(request, env): a new invocation decodes the update and routes it
Receive(r, u) ==
    /\ req[r].pc \in {"idle", "responded", "rejected"}
    /\ req' = [req EXCEPT ![r] = [Enter(Route(u), u) EXCEPT !.kind = u.kind]]
    /\ UNCHANGED <<binding, db, clock>>

\* the upsert statement of the start handler, run by the database for `user`
WriteUser(user) ==
    LET tid == TelegramId(user.id)
    IN /\ HasUser(users, tid) \/ nextUserId <= MaxRowId
       /\ users' = Upsert(binding, users, nextUserId, user, clock)
       /\ nextUserId' = IF HasUser(users, tid) THEN nextUserId ELSE nextUserId + 1

\* a plain insert: a row with the same telegram_id makes the unique index
\* reject the statement
Rejected_PlainInsert(us, tid) == HasUser(us, tid)

\* whether users_telegram_id_unique rejects the statement: the conflict
\* clause targets that index, so an existing row is updated instead
Rejected(us, tid) == FALSE

\* the awaited upsert settles: the row is inserted or refreshed, unless the
\* unique index rejects the statement and the handler throws
UpsertOk(r) ==
    /\ req[r].pc = "await_upsert"
    /\ IF Rejected(users, TelegramId(req[r].user[1].id))
       THEN /\ req' = [req EXCEPT ![r].pc = "threw", ![r].upsert = "failed",
                                  ![r].user = NoFrom]
            /\ UNCHANGED <<users, nextUserId>>
       ELSE /\ WriteUser(req[r].user[1])
            /\ req' = [req EXCEPT ![r].pc = "start_reply", ![r].upsert = "done"]
    /\ UNCHANGED <<binding, settings, nextSettingId, clock>>

\* the start handler catches the rejection and goes on to reply
UpsertFail_Caught(r) ==
    /\ req[r].pc = "await_upsert"
    /\ req' = [req EXCEPT ![r].pc = "start_reply", ![r].upsert = "failed"]
    /\ UNCHANGED <<binding, db, clock>>

\* the awaited upsert rejects: the statement changes nothing and the handler
\* throws, which ends its ctx
UpsertFail(r) ==
    /\ req[r].pc = "await_upsert"
    /\ req' = [req EXCEPT ![r].pc = "threw", ![r].upsert = "failed",
                           ![r].user = NoFrom]
    /\ UNCHANGED <<binding, db, clock>>

\* the start handler replies without awaiting the upsert
StartReply_NoAwait(r) ==
    /\ req[r].pc \in {"await_upsert", "start_reply"}
    /\ req' = [req EXCEPT ![r].pc = "handled", ![r].replies = Append(@, ReplyText(binding, "start"))]
    /\ UNCHANGED <<binding, db, clock>>

\* the start handler greets a sender it already has a row for differently
StartReply_WelcomeBack(r) ==
    /\ req[r].pc = "start_reply"
    /\ req' = [req EXCEPT ![r].pc = "handled",
                           ![r].replies =
                               Append(@, IF \E row \in users : row.updatedAt > row.createdAt
                                         THEN "Welcome back!"
                                         ELSE ReplyText(binding, "start"))]
    /\ UNCHANGED <<binding, db, clock>>

\* the start handler ends with await next(), so the generic message handler
\* runs after it
StartReply_CallsNext(r) ==
    /\ req[r].pc = "start_reply"
    /\ req' = [req EXCEPT ![r].pc = "handled",
                           ![r].replies = Append(Append(@, ReplyText(binding, "start")),
                                                 ReplyText(binding, "message"))]
    /\ UNCHANGED <<binding, db, clock>>

\* await ctx.reply("Welcome ...") at the end of the start handler
StartReply(r) ==
    /\ req[r].pc = "start_reply"
    /\ req' = [req EXCEPT ![r].pc = "handled", ![r].replies = Append(@, ReplyText(binding, "start"))]
    /\ UNCHANGED <<binding, db, clock>>

\* bot.command("help")
HelpHandler(r) ==
    /\ req[r].pc = "help_reply"
    /\ req' = [req EXCEPT ![r].pc = "handled", ![r].replies = Append(@, ReplyText(binding, "help"))]
    /\ UNCHANGED <<binding, db, clock>>

\* bot.on("message")
MessageHandler(r) ==
    /\ req[r].pc = "message_reply"
    /\ req' = [req EXCEPT ![r].pc = "handled", ![r].replies = Append(@, ReplyText(binding, "message"))]
    /\ UNCHANGED <<binding, db, clock>>

\* the Response is returned without awaiting the handler
Respond_Early(r) ==
    /\ req[r].pc \in {"handled", "skipped", "help_reply", "message_reply",
                      "start_reply"}
    /\ req' = [req EXCEPT ![r].pc = "responded", ![r].responses = @ + 1,
                           ![r].user = NoFrom]
    /\ UNCHANGED <<binding, db, clock>>

\* return webhookCallback(bot, "cloudflare-mod")(request): the Response,
\* after which the handler's ctx is gone
Respond(r) ==
    /\ req[r].pc \in {"handled", "skipped"}
    /\ req' = [req EXCEPT ![r].pc = "responded", ![r].responses = @ + 1,
                           ![r].user = NoFrom]
    /\ UNCHANGED <<binding, db, clock>>

\* the handler threw: the promise returned by fetch rejects, no Response
Reject(r) ==
    /\ req[r].pc = "threw"
    /\ req' = [req EXCEPT ![r].pc = "rejected"]
    /\ UNCHANGED <<binding, db, clock>>

\* the same upsert statement issued for a sender outside any invocation
UserUpsert(user) ==
    /\ WriteUser(user)
    /\ UNCHANGED <<binding, settings, nextSettingId, clock, req>>

\* upsert of a settings row keyed on (user_id, key); the foreign key
\* rejects a user_id that is not in users
SettingUpsert(uid, key, value) ==
    /\ \E row \in users : row.id = uid
    /\ HasSetting(settings, uid, key) \/ nextSettingId <= MaxRowId
    /\ settings' = SettingsUpsert(settings, nextSettingId, uid, key, value, clock)
    /\ nextSettingId' = IF HasSetting(settings, uid, key)
                        THEN nextSettingId ELSE nextSettingId + 1
    /\ UNCHANGED <<binding, users, nextUserId, clock, req>>

\* deletion of a users row; its settings rows go with it
DeleteUser(uid) ==
    /\ \E row \in users : row.id = uid
    /\ users' = { row \in users : row.id # uid }
    /\ settings' = CascadeDelete(settings, uid)
    /\ UNCHANGED <<binding, nextUserId, nextSettingId, clock, req>>

\* CURRENT_TIMESTAMP advances
Tick ==
    /\ clock < MaxClock
    /\ clock' = clock + 1
    /\ UNCHANGED <<binding, db, req>>

\* the steps of the invocations in a set of slots
Bot(R) ==
    \/ \E r \in R, u \in Updates : Receive(r, u)
    \/ \E r \in R : UpsertOk(r)
    \/ \E r \in R : UpsertFail(r)
    \/ \E r \in R : StartReply(r)
    \/ \E r \in R : HelpHandler(r)
    \/ \E r \in R : MessageHandler(r)
    \/ \E r \in R : Respond(r)
    \/ \E r \in R : Reject(r)

\* the worker: invocations of fetch, interleaved at their awaits
Next ==
    \/ Bot(Requests)
    \/ Tick

Spec == Init /\ [][Next]_vars

\* the worker serving one invocation at a time while settings rows are
\* written next to it
NextFrame ==
    \/ Bot({1})
    \/ \E uid \in 1..MaxRowId, k \in SettingKeys, v \in SettingValues :
          SettingUpsert(uid, k, v)
    \/ Tick

SpecFrame == Init /\ [][NextFrame]_vars

\* the persistence collaborator: the statements on the two tables
NextDb ==
    \/ \E user \in Senders : UserUpsert(user)
    \/ \E uid \in 1..MaxRowId, k \in SettingKeys, v \in SettingValues :
          SettingUpsert(uid, k, v)
    \/ \E row \in users : DeleteUser(row.id)
    \/ Tick

SpecDb == Init /\ [][NextDb]_vars

\* the sender of the test fixture, whose id is none of SenderIds
PeerId == 123456

Peer == [id |-> PeerId, username |-> "testuser", first_name |-> "Test",
         last_name |-> Undefined]

\* a database that already holds the row of the fixture's sender, written by
\* an earlier /start, and one setting of that user
InitSeeded ==
    /\ binding \in {"drizzle", "prisma"}
    /\ users = Upsert(binding, {}, 1, Peer, 0)
    /\ settings = SettingsUpsert({}, 1, 1, "theme", "dark", 0)
    /\ nextUserId = 2
    /\ nextSettingId = 2
    /\ clock = 0
    /\ req = [r \in Slots |-> IdleReq]

\* the worker serving one invocation at a time on that database
NextSeeded ==
    \/ Bot({1})
    \/ Tick

SpecSeeded == InitSeeded /\ [][NextSeeded]_vars

\* the /start updates
StartUpdates == { u \in Updates : u.kind = "start" }

\* several invocations serving /start updates at once on a database that is
\* up: a statement fails only when a constraint rejects it
NextConc ==
    \/ \E r \in ConcRequests, u \in StartUpdates : Receive(r, u)
    \/ \E r \in ConcRequests : UpsertOk(r)
    \/ \E r \in ConcRequests : StartReply(r)
    \/ \E r \in ConcRequests : Respond(r)

SpecConc == Init /\ [][NextConc]_vars

\* ================================================================ claims
DigitValue(c) ==
    CASE c = "0" -> 0 [] c = "1" -> 1 [] c = "2" -> 2 [] c = "3" -> 3
      [] c = "4" -> 4 [] c = "5" -> 5 [] c = "6" -> 6 [] c = "7" -> 7
      [] c = "8" -> 8 [] c = "9" -> 9

RECURSIVE ParseInt(_)
ParseInt(s) ==
    IF Len(s) = 0 THEN 0
    ELSE 10 * ParseInt(SubSeq(s, 1, Len(s) - 1)) + DigitValue(s[Len(s)])

\* the Telegram user id a users row stands for
ExternalId(row) ==
    IF binding = "drizzle" THEN ParseInt(row.telegramId) ELSE row.telegramId

\* what a row is expected to hold for an optional field of ctx.from
Stored(x) == IF x = "undefined" THEN "null" ELSE x

\* the users rows that stand for sender id i
RowsOf(us, i) == { row \in us : ExternalId(row) = i }

\* row holds the display-name fields of sender u
HoldsNames(row, u) ==
    /\ row.username = Stored(u.username)
    /\ row.firstName = Stored(u.first_name)
    /\ row.lastName = Stored(u.last_name)

\* invocation r completes its start upsert in this step
UpsertStep(r) == req[r].upsert = "pending" /\ req'[r].upsert = "done"

\* invocation r takes a step
Step(r) == req'[r] # req[r]

WelcomeText == "Welcome to the Bot! Send /help for help."

\* a start invocation whose handler has finished has sent the welcome text
StartReplied ==
    \A r \in Requests :
       (req[r].kind = "start" /\ req[r].pc \in {"handled", "responded"})
       => req[r].replies = <<WelcomeText>>

C2_AsStated ==
    [][\A r \in Requests :
         /\ (UpsertStep(r) /\ RowsOf(users, req[r].user[1].id) # {})
            => /\ Cardinality(users') = Cardinality(users)
               /\ \A old \in RowsOf(users, req[r].user[1].id) :
                     \E new \in users' :
                        /\ new.id = old.id
                        /\ HoldsNames(new, req[r].user[1])
                        /\ new.updatedAt # old.updatedAt
         /\ (req[r].pc = "start_reply" /\ Step(r))
            => req'[r].replies = <<WelcomeText>>]_vars

\* C2: when the start upsert of a sender whose id already has a row
\* completes, no row is added, that row takes the names of the update and
\* its updated-timestamp is set to the current time: never earlier than it
\* was, and different from it whenever the clock has advanced since the row
\* was last written; the reply is the welcome text.
C2_RepeatStart ==
    [][\A r \in Requests :
         /\ (UpsertStep(r) /\ RowsOf(users, req[r].user[1].id) # {})
            => /\ Cardinality(users') = Cardinality(users)
               /\ \A old \in RowsOf(users, req[r].user[1].id) :
                     \E new \in users' :
                        /\ new.id = old.id
                        /\ HoldsNames(new, req[r].user[1])
                        /\ new.updatedAt = clock
                        /\ new.updatedAt >= old.updatedAt
                        /\ (clock > old.updatedAt => new.updatedAt # old.updatedAt)
         /\ (req[r].pc = "start_reply" /\ Step(r))
            => req'[r].replies = <<WelcomeText>>]_vars

\* a repeat start has been served: the sender's row was refreshed after it
\* was created, and it is still the only row
C2_Witness ==
    \E r \in Requests :
       /\ req[r].kind = "start" /\ req[r].upsert = "done"
       /\ req[r].pc = "handled" /\ req[r].replies = <<WelcomeText>>
       /\ Cardinality(users) = 1 /\ nextUserId = 2
       /\ \E row \in users :
             /\ ExternalId(row) = req[r].user[1].id
             /\ HoldsNames(row, req[r].user[1])
             /\ row.updatedAt > row.createdAt

\* C3: no two rows of the users table stand for the same Telegram id, and
\* no two hold the same telegram_id value.
C3_UniqueTelegramId ==
    \A a \in users, b \in users :
       (ExternalId(a) = ExternalId(b) \/ a.telegramId = b.telegramId) => a = b

\* a sender has started more than once and has one row
C3_Witness ==
    /\ Cardinality(users) = 1
    /\ \E row \in users : row.updatedAt > row.createdAt
    /\ \E r \in Requests : req[r].kind = "start" /\ req[r].pc = "responded"

\* the four values the persistence collaborator keeps
Persisted == <<users, settings, nextUserId, nextSettingId>>

HelpText == "Available commands:\n/start - Start\n/help - Help"

AckText == "Message received!"

\* an invocation serving /help issues no upsert and, once its handler has
\* finished, has sent the help text
HelpReplied ==
    \A r \in Requests :
       req[r].kind = "help"
       => /\ req[r].upsert = "none" /\ req[r].attempts = 0
          /\ req[r].pc \in {"handled", "responded"}
             => req[r].replies = <<HelpText>>

\* C4: no step of an invocation serving a /help update changes the users or
\* settings table or issues an upsert, and once its handler has finished
\* the invocation has sent exactly the help text.
C4_HelpFrame ==
    /\ HelpReplied
    /\ [][/\ \A r \in Requests :
               (Step(r) /\ req'[r].kind = "help") => Persisted' = Persisted
           /\ HelpReplied']_vars

\* a /help update has been answered while both tables hold rows
C4_Witness ==
    \E r \in Requests :
       /\ req[r].kind = "help" /\ req[r].pc = "responded"
       /\ req[r].replies = <<HelpText>>
       /\ users # {} /\ settings # {}

\* an invocation serving a non-command message issues no upsert and, once its
\* handler has finished, has sent the acknowledgment text
MessageReplied ==
    \A r \in Requests :
       req[r].kind = "message"
       => /\ req[r].upsert = "none" /\ req[r].attempts = 0
          /\ req[r].pc \in {"handled", "responded"}
             => req[r].replies = <<AckText>>

\* C5: no step of an invocation serving a non-command message changes the
\* users or settings table or issues an upsert, and once its handler has
\* finished the invocation has sent exactly the acknowledgment text.
C5_MessageFrame ==
    /\ MessageReplied
    /\ [][/\ \A r \in Requests :
               (Step(r) /\ req'[r].kind = "message") => Persisted' = Persisted
           /\ MessageReplied']_vars

\* a non-command message has been answered while both tables hold rows
C5_Witness ==
    \E r \in Requests :
       /\ req[r].kind = "message" /\ req[r].pc = "responded"
       /\ req[r].replies = <<AckText>>
       /\ users # {} /\ settings # {}

\* a start invocation with a sender that has replied has a completed upsert
RepliedOnlyWritten ==
    \A r \in Requests :
       (req[r].kind = "start" /\ req[r].user # NoFrom /\ req[r].replies # <<>>)
       => req[r].upsert = "done"

\* C6: a start invocation that has a sender sends its reply only from a
\* state in which its own upsert has completed; while that upsert is pending
\* (or has failed) no reply of the invocation has been sent.
C6_WriteBeforeReply ==
    /\ RepliedOnlyWritten
    /\ [][/\ \A r \in Requests :
               (req'[r].kind = "start" /\ req'[r].user # NoFrom
                  /\ req'[r].replies # <<>> /\ req[r].replies = <<>>)
               => req[r].upsert = "done"
           /\ RepliedOnlyWritten']_vars

\* a start invocation has replied after its upsert wrote the sender's row
C6_Witness ==
    \E r \in Requests :
       /\ req[r].kind = "start" /\ req[r].user # NoFrom
       /\ req[r].upsert = "done" /\ req[r].replies = <<WelcomeText>>
       /\ RowsOf(users, req[r].user[1].id) # {}

\* an upsert is issued at most once per invocation, and an invocation whose
\* upsert failed is ending as a failure without reply or Response
FailedIsSilent ==
    \A r \in Requests :
       /\ req[r].attempts <= 1
       /\ req[r].upsert = "failed"
          => /\ req[r].pc \in {"threw", "rejected"}
             /\ req[r].attempts = 1
             /\ req[r].replies = <<>>
             /\ req[r].responses = 0

\* C7: a start invocation whose upsert has failed has issued that upsert
\* exactly once, has sent no reply and returned no Response, and is ending as
\* a failure; none of its steps, from the arrival of the update to the
\* rejection, changes the users table.
C7_UpsertFailure ==
    /\ FailedIsSilent
    /\ [][/\ \A r \in Requests :
               (Step(r) /\ req'[r].upsert \in {"pending", "failed"})
               => users' = users
           /\ FailedIsSilent']_vars

\* a start invocation has ended as a failure
C7_Witness ==
    \E r \in Requests :
       /\ req[r].kind = "start" /\ req[r].upsert = "failed"
       /\ req[r].pc = "rejected" /\ req[r].replies = <<>>

\* the invocation's handler has run to completion (or none was selected)
HandlerCompleted(q) ==
    \/ q.handler = "none" /\ q.replies = <<>>
    \/ q.handler # "none" /\ Len(q.replies) = 1 /\ q.upsert \in {"none", "done"}

\* C8 as stated: every invocation that has ended has returned exactly one
\* Response, after its handler ran to completion.
C8_AsStated ==
    \A r \in Requests :
       req[r].pc \in {"responded", "rejected"}
       => req[r].responses = 1 /\ HandlerCompleted(req[r])

\* the Responses an invocation has returned, by where it stands
ResponseCount ==
    \A r \in Requests :
       /\ req[r].responses \in {0, 1}
       /\ req[r].responses = 1 <=> req[r].pc = "responded"
       /\ req[r].responses = 1 => HandlerCompleted(req[r])
       /\ req[r].pc = "rejected"
          => req[r].responses = 0 /\ req[r].upsert = "failed"

\* C8: an invocation returns at most one Response, and returns it only after
\* its handler has run to completion; an invocation that has ended has
\* returned exactly one Response unless its start upsert failed, in which case
\* it has returned none.
C8_OneResponse ==
    /\ ResponseCount
    /\ [][/\ \A r \in Requests :
               req'[r].responses > req[r].responses
               => /\ req[r].pc \in {"handled", "skipped"}
                  /\ HandlerCompleted(req[r])
                  /\ req[r].responses = 0
           /\ ResponseCount']_vars

\* a start invocation has returned its Response after upsert and reply
C8_Witness ==
    \E r \in Requests :
       /\ req[r].pc = "responded" /\ req[r].responses = 1
       /\ req[r].kind = "start" /\ req[r].upsert = "done"
       /\ req[r].replies = <<WelcomeText>>

\* the settings rows of a (user id, key) pair
PairRows(ss, uid, k) == { s \in ss : s.userId = uid /\ s.key = k }

\* no two settings rows share a (user id, key) pair
PairUnique ==
    \A a \in settings, b \in settings :
       (a.userId = b.userId /\ a.key = b.key) => a = b

NoOrphans == \A s \in settings : \E row \in users : row.id = s.userId

\* C10: deleting a users row leaves no settings row with that user id and
\* leaves the other settings rows as they were; in every reachable state
\* each settings row's user id is the id of a users row.
C10_Cascade ==
    /\ NoOrphans
    /\ [][/\ \A row \in users :
               DeleteUser(row.id)
               => /\ \A s \in settings' : s.userId # row.id
                  /\ settings' = { s \in settings : s.userId # row.id }
           /\ NoOrphans']_vars

\* a user that owned a setting has been deleted and the sender has come back
C10_Witness ==
    /\ nextSettingId = 2 /\ settings = {}
    /\ nextUserId = 3 /\ Cardinality(users) = 1

\* no start invocation has failed, and each one whose handler has finished
\* has sent the welcome text
ConcAllServed ==
    \A r \in ConcRequests :
       /\ req[r].upsert # "failed"
       /\ req[r].pc \notin {"threw", "rejected"}
       /\ req[r].pc \in {"handled", "responded"} => req[r].replies = <<WelcomeText>>

\* at most one users row per sender id
ConcOneRow == \A i \in SenderIds : Cardinality(RowsOf(users, i)) <= 1

Other(b) == IF b = "drizzle" THEN "prisma" ELSE "drizzle"

\* a users table of entry point b as the other entry point would hold it:
\* the same rows with telegram_id in the other column type
Translate(b, us) ==
    { [row EXCEPT !.telegramId = IF b = "drizzle" THEN ParseInt(@) ELSE String(@)]
      : row \in us }

MessageKinds == {"start", "help", "message"}

\* C13: a message update is routed to exactly one of the three handlers,
\* the one of its own kind; an invocation never sends more than one reply, a
\* /start or /help update never gets the "Message received!" reply, and a
\* message update whose handler has finished has got exactly one reply.
C13_OneHandler ==
    \A r \in Requests :
       /\ Len(req[r].replies) <= 1
       /\ req[r].kind \in MessageKinds => req[r].handler = req[r].kind
       /\ req[r].kind \in {"start", "help"}
          => \A i \in 1..Len(req[r].replies) : req[r].replies[i] # AckText
       /\ (req[r].kind \in MessageKinds /\ req[r].pc \in {"handled", "responded"})
          => /\ Len(req[r].replies) = 1
             /\ req[r].replies[1] = CASE req[r].kind = "start" -> WelcomeText
                                      [] req[r].kind = "help" -> HelpText
                                      [] req[r].kind = "message" -> AckText

\* a /start update has been answered: one handler, one reply, one Response
C13_Witness ==
    \E r \in Requests :
       /\ req[r].kind = "start" /\ req[r].handler = "start"
       /\ req[r].pc = "responded" /\ req[r].responses = 1
       /\ req[r].replies = <<WelcomeText>>

\* a users table without its updated_at column
StripUpdated(us) ==
    { [id |-> row.id, telegramId |-> row.telegramId, username |-> row.username,
       firstName |-> row.firstName, lastName |-> row.lastName,
       createdAt |-> row.createdAt] : row \in us }

\* C14: the start upsert is idempotent.  A start upsert for a sender whose
\* row already holds the update's names (as after handling the same update
\* once) leaves the users table and the id counter as they were, apart from
\* updated_at; issuing the statement of a completed upsert once more, at the
\* same or any later clock reading, gives the same table apart from
\* updated_at; and every start handler that gets to its reply sends the same
\* welcome text.
C14_Idempotent ==
    [][\A r \in Requests :
          /\ UpsertStep(r)
             => LET user == req[r].user[1]
                IN /\ (\E row \in RowsOf(users, user.id) : HoldsNames(row, user))
                      => /\ StripUpdated(users') = StripUpdated(users)
                         /\ nextUserId' = nextUserId
                   /\ \A t \in clock..MaxClock :
                         StripUpdated(Upsert(binding, users', nextUserId', user, t))
                         = StripUpdated(users')
          /\ (req[r].pc = "start_reply" /\ Step(r))
             => req'[r].replies = <<WelcomeText>>]_vars

\* a repeat start has just been upserted by the Drizzle entry point and
\* awaits its reply: the sender's only row holds the update's names, was
\* created earlier and no second row id has been handed out for the sender
C14_Witness ==
    /\ binding = "drizzle"
    /\ \E r \in Requests :
          /\ req[r].pc = "start_reply" /\ req[r].upsert = "done"
          /\ \E row \in users :
                /\ RowsOf(users, req[r].user[1].id) = {row}
                /\ HoldsNames(row, req[r].user[1])
                /\ row.createdAt < clock /\ row.updatedAt = clock
                /\ row.id < nextUserId

\* the replies an update of kind k gets, whatever came before it
KindReplies(k) ==
    CASE k = "start" -> <<WelcomeText>>
      [] k = "help" -> <<HelpText>>
      [] k = "message" -> <<AckText>>
      [] OTHER -> <<>>

\* invocation r has run its handler to the end
Finished(r) == req[r].pc \in {"handled", "skipped", "responded"}

\* C15: the replies to an update are a function of its kind alone.  Whatever
\* the entry point, the earlier updates and the stored rows, a handler that
\* sends a reply sends the reply of its update's kind, a handler that has
\* run to its end (so its upsert, if any, succeeded) has sent exactly the
\* replies of that kind, and two invocations that have finished updates of
\* the same kind have sent the same replies.
C15_ReplyByKind ==
    /\ [][\A r \in Requests :
             /\ (Step(r) /\ Len(req'[r].replies) > Len(req[r].replies))
                => req'[r].replies = KindReplies(req'[r].kind)
             /\ Finished(r)' => req'[r].replies = KindReplies(req'[r].kind)]_vars
    /\ [][\A r \in Requests, q \in Requests :
             (Finished(r)' /\ Finished(q)' /\ req'[r].kind = req'[q].kind)
             => req'[r].replies = req'[q].replies]_vars

\* a /start update is answered with the welcome text after the sender's row
\* has been through an earlier start at an earlier clock reading
C15_Witness ==
    \E r \in Requests :
       /\ req[r].kind = "start" /\ req[r].pc = "handled"
       /\ req[r].replies = KindReplies("start")
       /\ \E row \in users : row.createdAt = 0 /\ row.updatedAt = MaxClock

\* invocation r is serving a /start update that carries no sender
NoSenderStart(r) ==
    /\ req[r].kind = "start" /\ req[r].user = NoFrom
    /\ req[r].pc \in {"await_upsert", "start_reply", "handled"}

\* a start without sender has issued no upsert, is not waiting for one, and
\* once its handler has finished it has sent the welcome text
NoSenderServed ==
    \A r \in Requests :
       NoSenderStart(r)
       => /\ req[r].upsert = "none" /\ req[r].attempts = 0
          /\ req[r].pc # "await_upsert"
          /\ req[r].pc = "handled" => req[r].replies = <<WelcomeText>>

\* C16: a /start update without sender issues no persistence operation,
\* none of its steps (entering the handler, replying, returning the
\* Response) changes the users or settings table, it never throws, and it
\* ends with the welcome text sent.
C16_NoSender ==
    /\ NoSenderServed
    /\ [][/\ NoSenderServed'
           /\ \A r \in Requests :
                 (Step(r) /\ (NoSenderStart(r) \/ NoSenderStart(r)'))
                 => /\ Persisted' = Persisted
                    /\ req'[r].upsert = "none" /\ req'[r].attempts = 0
                    /\ req'[r].pc \in {"start_reply", "handled", "responded"}
                    /\ req'[r].pc = "responded"
                       => req'[r].replies = <<WelcomeText>>]_vars

\* a /start update without sender has been answered with the welcome text
\* and no upsert was issued for it
C16_Witness ==
    \E r \in Requests :
       /\ NoSenderStart(r) /\ req[r].pc = "handled"
       /\ req[r].upsert = "none" /\ req[r].attempts = 0
       /\ req[r].replies = <<WelcomeText>>

\* C17: a start upsert for sender id X touches X's row only.  A row X
\* already has keeps its internal id, its telegram_id and its created_at;
\* every row of another sender is carried over as it is; the only row that
\* may be new or different afterwards is X's; the settings table and its id
\* counter are unchanged.  The other steps of a start invocation change no
\* table at all.
C17_StartFrame ==
    [][\A r \in Requests :
          /\ UpsertStep(r)
             => LET X == req[r].user[1].id
                IN /\ \A old \in RowsOf(users, X) :
                         \E new \in users' :
                            /\ new.id = old.id
                            /\ new.telegramId = old.telegramId
                            /\ new.createdAt = old.createdAt
                   /\ Cardinality(RowsOf(users', X)) = 1
                   /\ \A row \in users : ExternalId(row) # X => row \in users'
                   /\ \A row \in users' : row \in users \/ ExternalId(row) = X
                   /\ settings' = settings
                   /\ nextSettingId' = nextSettingId
          /\ (Step(r) /\ req'[r].kind = "start" /\ ~UpsertStep(r))
             => Persisted' = Persisted]_vars

\* after a repeat start of a sender, at a later clock reading, the sender's
\* row has its id and created_at and a new updated_at, while the row of the
\* fixture's sender and that user's setting are as they were seeded
C17_Witness ==
    \E r \in Requests :
       /\ req[r].kind = "start" /\ req[r].pc = "handled"
       /\ req[r].user # NoFrom
       /\ \E row \in RowsOf(users, req[r].user[1].id) :
             row.id = 2 /\ row.createdAt = 0 /\ row.updatedAt = clock /\ clock > 0
       /\ \E peer \in RowsOf(users, PeerId) :
             /\ peer.id = 1 /\ HoldsNames(peer, Peer)
             /\ peer.createdAt = 0 /\ peer.updatedAt = 0
       /\ settings = SettingsUpsert({}, 1, 1, "theme", "dark", 0)
====
